---- MODULE Spec2Model ----
(***************************************************************************)
(* A model of the FlightsSQL command-line tool: the menu loop of main.py,  *)
(* its input validation, the data-access gateway FlightData of data.py     *)
(* with its four query templates, and the display routine print_results.   *)
(*                                                                         *)
(* Text is a sequence of one-character strings, so that len(), isalpha(),  *)
(* int() and strptime() are computed on the characters.  A database cell   *)
(* or a bound parameter is a Value: NULL, an integer or a text.            *)
(***************************************************************************)
EXTENDS Integers, Sequences, FiniteSets, TLC

VARIABLES
    pc,          \* position of the program (see Init)
    engine,      \* FlightData._engine: "unset", "live" or "disposed"
    connsOut,    \* connections checked out of the engine
    flights,     \* the flights relation of the store (read-only)
    input,       \* what the user typed at the current prompt, <<>> before any
    rejected,    \* an input was rejected ("Try again...") at the current prompt
    call,        \* the gateway call made by the current handler
    storeRaised, \* the store raised while the current query ran
    results,     \* what _execute_query returned / print_results was given
    rowSrc,      \* history: the flight each returned row was read from
    out,         \* the result lines print_results has printed
    msgs,        \* the "Error showing results" messages print_results printed
    exc,         \* the exception that is propagating, "none" if none
    disposals,   \* completed calls of engine.dispose()
    delFailed    \* __del__ itself raised

vars == <<pc, engine, connsOut, flights, input, rejected, call, storeRaised,
          results, rowSrc, out, msgs, exc, disposals, delFailed>>

-----------------------------------------------------------------------------
(* Bounds of the model *)

NumFlights == 3
MaxBatch == 2

(* Program constants *)

IATA_LENGTH == 3

-----------------------------------------------------------------------------
(* Characters and values *)

Digits == {"0", "1", "2", "3", "4", "5", "6", "7", "8", "9"}
Letters == {"A", "D", "E", "F", "J", "K", "L", "S", "T", "U", "a", "b", "x"}

DigitVal(c) ==
    CASE c = "0" -> 0 [] c = "1" -> 1 [] c = "2" -> 2 [] c = "3" -> 3
      [] c = "4" -> 4 [] c = "5" -> 5 [] c = "6" -> 6 [] c = "7" -> 7
      [] c = "8" -> 8 [] c = "9" -> 9

Null == [kind |-> "null", num |-> 0, txt |-> <<>>]
IntV(n) == [kind |-> "int", num |-> n, txt |-> <<>>]
TextV(s) == [kind |-> "text", num |-> 0, txt |-> s]

\* str.isalpha(): non-empty and every character a letter
IsAlpha(s) == Len(s) > 0 /\ \A i \in 1..Len(s) : s[i] \in Letters

\* str.strip() of blanks, as int() applies it to its argument
RECURSIVE LStrip(_)
LStrip(s) == IF s # <<>> /\ Head(s) = " " THEN LStrip(Tail(s)) ELSE s

RECURSIVE RStrip(_)
RStrip(s) ==
    IF s # <<>> /\ s[Len(s)] = " " THEN RStrip(SubSeq(s, 1, Len(s) - 1)) ELSE s

RECURSIVE DigitsValue(_)
DigitsValue(s) ==
    IF s = <<>> THEN 0
    ELSE 10 * DigitsValue(SubSeq(s, 1, Len(s) - 1)) + DigitVal(s[Len(s)])

AllDigits(s) == Len(s) > 0 /\ \A i \in 1..Len(s) : s[i] \in Digits

\* int(<str>): blanks stripped, an optional sign, then decimal digits;
\* anything else raises ValueError (ok = FALSE)
PyIntStr(s) ==
    LET t == RStrip(LStrip(s))
        signed == t # <<>> /\ Head(t) \in {"-", "+"}
        body == IF signed THEN Tail(t) ELSE t
    IN IF AllDigits(body)
       THEN [ok |-> TRUE,
             val |-> IF signed /\ Head(t) = "-" THEN 0 - DigitsValue(body)
                     ELSE DigitsValue(body)]
       ELSE [ok |-> FALSE, val |-> 0]

\* int(<cell value>) as print_results applies it to result['DELAY']
PyInt(v) ==
    CASE v.kind = "int" -> [ok |-> TRUE, val |-> v.num]
      [] v.kind = "text" -> PyIntStr(v.txt)
      [] OTHER -> [ok |-> FALSE, val |-> 0]

\* Python truth value of a cell: None, 0 and '' are false
Truthy(v) ==
    CASE v.kind = "null" -> FALSE
      [] v.kind = "int" -> v.num # 0
      [] OTHER -> v.txt # <<>>

-----------------------------------------------------------------------------
(* datetime.strptime(date_input, '%d/%m/%Y') *)

RECURSIVE SplitOn(_, _)
SplitOn(s, sep) ==
    IF \E i \in 1..Len(s) : s[i] = sep
    THEN LET i == CHOOSE i \in 1..Len(s) :
                      s[i] = sep /\ \A j \in 1..(i - 1) : s[j] # sep
         IN <<SubSeq(s, 1, i - 1)>> \o SplitOn(SubSeq(s, i + 1, Len(s)), sep)
    ELSE <<s>>

IsLeap(y) == (y % 4 = 0 /\ y % 100 # 0) \/ y % 400 = 0

DaysInMonth(m, y) ==
    CASE m = 2 -> IF IsLeap(y) THEN 29 ELSE 28
      [] m \in {4, 6, 9, 11} -> 30
      [] OTHER -> 31

\* %d and %m take one or two digits, %Y exactly four; the fields are
\* separated by "/" and nothing may remain; datetime() then rejects a day
\* the month does not have.  ok = FALSE stands for the ValueError.
Strptime(s) ==
    LET f == SplitOn(s, "/")
        shaped == /\ Len(f) = 3
                  /\ AllDigits(f[1]) /\ Len(f[1]) \in {1, 2}
                  /\ AllDigits(f[2]) /\ Len(f[2]) \in {1, 2}
                  /\ AllDigits(f[3]) /\ Len(f[3]) = 4
        d == DigitsValue(f[1])
        m == DigitsValue(f[2])
        y == DigitsValue(f[3])
    IN IF shaped /\ d \in 1..31 /\ m \in 1..12 /\ y >= 1
             /\ d <= DaysInMonth(m, y)
       THEN [ok |-> TRUE, day |-> d, month |-> m, year |-> y]
       ELSE [ok |-> FALSE, day |-> 0, month |-> 0, year |-> 0]

-----------------------------------------------------------------------------
(* The store: relations flights and airlines *)

SEA == <<"S", "E", "A">>
JFK == <<"J", "F", "K">>

Airlines ==
    << [ID |-> IntV(1), AIRLINE |-> TextV(<<"D", "E", "L", "T", "A">>)],
       [ID |-> IntV(2), AIRLINE |-> TextV(<<"U", "A">>)] >>

\* Values a DEPARTURE_DELAY cell may hold
StoreDelays ==
    {Null, IntV(0), IntV(45), TextV(<<"4", "5">>), TextV(<<"a", "b">>)}

FlightRow(i, delay) ==
    [ID |-> IntV(i),
     YEAR |-> IntV(IF i % 3 = 0 THEN 2016 ELSE 2015),
     MONTH |-> IntV(IF i % 3 = 0 THEN 2 ELSE 1),
     DAY |-> IntV(IF i % 3 = 0 THEN 29 ELSE 14),
     AIRLINE |-> IntV(((i - 1) % Len(Airlines)) + 1),
     ORIGIN_AIRPORT |-> TextV(IF i % 2 = 1 THEN SEA ELSE JFK),
     DESTINATION_AIRPORT |-> TextV(IF i % 2 = 1 THEN JFK ELSE SEA),
     DEPARTURE_DELAY |-> delay]

Stores ==
    {[i \in 1..NumFlights |-> FlightRow(i, d[i])] :
        d \in [1..NumFlights -> StoreDelays]}

\* SQL "=": never true of NULL
SqlEq(a, b) == a.kind # "null" /\ b.kind # "null" /\ a = b

\* flights.* and airlines.*, as (column name, value) in column order
FlightsStar(f) ==
    << <<"ID", f.ID>>, <<"YEAR", f.YEAR>>, <<"MONTH", f.MONTH>>,
       <<"DAY", f.DAY>>, <<"AIRLINE", f.AIRLINE>>,
       <<"ORIGIN_AIRPORT", f.ORIGIN_AIRPORT>>,
       <<"DESTINATION_AIRPORT", f.DESTINATION_AIRPORT>>,
       <<"DEPARTURE_DELAY", f.DEPARTURE_DELAY>> >>

AirlinesStar(a) == << <<"ID", a.ID>>, <<"AIRLINE", a.AIRLINE>> >>

\* flights x airlines as index pairs, in nested-loop order
Pairs(fl) ==
    [k \in 1..(Len(fl) * Len(Airlines)) |->
        <<((k - 1) \div Len(Airlines)) + 1, ((k - 1) % Len(Airlines)) + 1>>]

\* The four templates.  Each yields, in store order, the projected columns
\* of every selected row (cols) and the flight the row was read from (src).
QUERY_FLIGHT_BY_ID(fl, params) ==
    LET On(p) == /\ SqlEq(fl[p[1]].AIRLINE, Airlines[p[2]].ID)
                 /\ SqlEq(fl[p[1]].ID, params.id)
        sel == SelectSeq(Pairs(fl), On)
    IN [k \in 1..Len(sel) |->
          LET f == fl[sel[k][1]]
              a == Airlines[sel[k][2]]
          IN [src |-> sel[k][1],
              cols |-> FlightsStar(f) \o
                       << <<"AIRLINE", a.AIRLINE>>, <<"FLIGHT_ID", f.ID>>,
                          <<"DELAY", f.DEPARTURE_DELAY>> >>]]

QUERY_FLIGHT_BY_DATE(fl, params) ==
    LET Where(i) == /\ SqlEq(fl[i].DAY, params.day)
                    /\ SqlEq(fl[i].MONTH, params.month)
                    /\ SqlEq(fl[i].YEAR, params.year)
        sel == SelectSeq([i \in 1..Len(fl) |-> i], Where)
    IN [k \in 1..Len(sel) |->
          LET f == fl[sel[k]]
          IN [src |-> sel[k],
              cols |-> FlightsStar(f) \o
                       << <<"FLIGHT_ID", f.ID>>,
                          <<"ORIGIN_AIRPORT", f.ORIGIN_AIRPORT>>,
                          <<"DESTINATION_AIRPORT", f.DESTINATION_AIRPORT>>,
                          <<"DELAY", f.DEPARTURE_DELAY>> >>]]

QUERY_FLIGHT_BY_AIRPORT(fl, params) ==
    LET On(p) == /\ SqlEq(fl[p[1]].AIRLINE, Airlines[p[2]].ID)
                 /\ SqlEq(fl[p[1]].ORIGIN_AIRPORT, params.origin_airport)
        sel == SelectSeq(Pairs(fl), On)
    IN [k \in 1..Len(sel) |->
          LET f == fl[sel[k][1]]
              a == Airlines[sel[k][2]]
          IN [src |-> sel[k][1],
              cols |-> FlightsStar(f) \o
                       << <<"FLIGHT_ID", f.ID>>,
                          <<"ORIGIN_AIRPORT", f.ORIGIN_AIRPORT>>,
                          <<"DESTINATION_AIRPORT", f.DESTINATION_AIRPORT>>,
                          <<"AIRLINE", a.AIRLINE>>,
                          <<"DELAY", f.DEPARTURE_DELAY>> >>]]

QUERY_FLIGHT_BY_AIRLINE(fl, params) ==
    LET On(p) == /\ SqlEq(Airlines[p[2]].ID, fl[p[1]].AIRLINE)
                 /\ SqlEq(Airlines[p[2]].AIRLINE, params.airline)
        sel == SelectSeq(Pairs(fl), On)
    IN [k \in 1..Len(sel) |->
          LET f == fl[sel[k][1]]
              a == Airlines[sel[k][2]]
          IN [src |-> sel[k][1],
              cols |-> AirlinesStar(a) \o
                       << <<"AIRLINE_ID", a.ID>>,
                          <<"ORIGIN_AIRPORT", f.ORIGIN_AIRPORT>>,
                          <<"DESTINATION_AIRPORT", f.DESTINATION_AIRPORT>>,
                          <<"AIRLINE", a.AIRLINE>>,
                          <<"DELAY", f.DEPARTURE_DELAY>> >>]]

\* row._asdict(): a dict keyed by column name; of two columns with one name
\* the later one is kept
RowAsDict(cols) ==
    [k \in {cols[i][1] : i \in 1..Len(cols)} |->
        LET last == CHOOSE i \in 1..Len(cols) :
                        /\ cols[i][1] = k
                        /\ \A j \in (i + 1)..Len(cols) : cols[j][1] # k
        IN cols[last][2]]

-----------------------------------------------------------------------------
(* data.py: the gateway FlightData *)

NoCall == [op |-> "none", query |-> "none", params |-> [none |-> Null]]

get_delayed_flights_by_airline(origin_airport) ==
    [op |-> "get_delayed_flights_by_airline",
     query |-> "QUERY_FLIGHT_BY_AIRLINE",
     params |-> [airline |-> origin_airport]]

get_delayed_flights_by_airport(origin_airport) ==
    [op |-> "get_delayed_flights_by_airport",
     query |-> "QUERY_FLIGHT_BY_AIRPORT",
     params |-> [origin_airport |-> origin_airport]]

get_flight_by_id(flight_id) ==
    [op |-> "get_flight_by_id",
     query |-> "QUERY_FLIGHT_BY_ID",
     params |-> [id |-> flight_id]]

get_flights_by_date(day, month, year) ==
    [op |-> "get_flights_by_date",
     query |-> "QUERY_FLIGHT_BY_DATE",
     params |-> [day |-> day, month |-> month, year |-> year]]

\* conn.execute(text(query), params)
RunTemplate(fl, query, params) ==
    CASE query = "QUERY_FLIGHT_BY_ID" -> QUERY_FLIGHT_BY_ID(fl, params)
      [] query = "QUERY_FLIGHT_BY_DATE" -> QUERY_FLIGHT_BY_DATE(fl, params)
      [] query = "QUERY_FLIGHT_BY_AIRPORT" -> QUERY_FLIGHT_BY_AIRPORT(fl, params)
      [] query = "QUERY_FLIGHT_BY_AIRLINE" -> QUERY_FLIGHT_BY_AIRLINE(fl, params)

\* for row in result: records.append(row._asdict())
\* (MaterializeFirstRow: the faulty variant that returns from inside the loop)
MaterializeFirstRow(rows) ==
    [k \in 1..(IF Len(rows) > 0 THEN 1 ELSE 0) |-> RowAsDict(rows[k].cols)]
Materialize(rows) == [k \in 1..Len(rows) |-> RowAsDict(rows[k].cols)]

\* Leaving "with self._engine.connect() as conn": the connection goes back
\* to the engine whether the block returned or raised.
\* (ReleaseOnlyOnReturn: the faulty variant that closes it only on return)
ReleaseOnlyOnReturn(n, raised) == IF raised THEN n ELSE n - 1
ReleaseOnExit(n, raised) == n - 1

-----------------------------------------------------------------------------
(* main.py: print_results *)

\* except (ValueError, sqlalchemy.exc.SQLAlchemyError)
Caught(e) == e \in {"ValueError", "SQLAlchemyError"}

\* The try block of one row: the first exception it raises, "none" if none
TryError(r) ==
    CASE "DELAY" \notin DOMAIN r -> "KeyError"
      [] Truthy(r["DELAY"]) /\ ~PyInt(r["DELAY"]).ok -> "ValueError"
      [] "ORIGIN_AIRPORT" \notin DOMAIN r -> "KeyError"
      [] "DESTINATION_AIRPORT" \notin DOMAIN r -> "KeyError"
      [] "AIRLINE" \notin DOMAIN r -> "KeyError"
      [] OTHER -> "none"

\* delay = int(result['DELAY']) if result['DELAY'] else 0
DelayOf(r) == IF Truthy(r["DELAY"]) THEN PyInt(r["DELAY"]).val ELSE 0

\* if delay and delay > 0
\* (ShowsDelayNonZero: the faulty variant without "delay > 0")
ShowsDelayNonZero(delay) == delay # 0
ShowsDelay(delay) == delay # 0 /\ delay > 0

\* The line printed for row i: "<ID>. <origin> -> <dest> by <airline>",
\* with ", Delay: <n> Minutes" appended when suffix
Line(r, i) ==
    [idx |-> i, id |-> r["ID"], origin |-> r["ORIGIN_AIRPORT"],
     dest |-> r["DESTINATION_AIRPORT"], airline |-> r["AIRLINE"],
     suffix |-> ShowsDelay(DelayOf(r)),
     n |-> IF ShowsDelay(DelayOf(r)) THEN DelayOf(r) ELSE 0]

\* One pass of the loop body: the exception row r ends in, "none" if its
\* line is printed.  result['ID'] is read outside the try block.
RowError(r) ==
    IF TryError(r) # "none" THEN TryError(r)
    ELSE IF "ID" \notin DOMAIN r THEN "KeyError"
    ELSE "none"

\* The loop from row i on: the lines printed, the error messages printed and
\* the exception that leaves print_results ("none" when it returns)
RECURSIVE PrintFrom(_, _)
PrintFrom(rs, i) ==
    IF i > Len(rs) THEN [out |-> <<>>, msgs |-> 0, raised |-> "none"]
    ELSE LET e == RowError(rs[i])
         IN IF e = "none"
            THEN LET rest == PrintFrom(rs, i + 1)
                 IN [rest EXCEPT !.out = <<Line(rs[i], i)>> \o rest.out]
            ELSE IF Caught(e) /\ TryError(rs[i]) # "none"
            THEN [out |-> <<>>, msgs |-> 1, raised |-> "none"]
            ELSE [out |-> <<>>, msgs |-> 0, raised |-> e]

print_results(rs) == PrintFrom(rs, 1)

-----------------------------------------------------------------------------
(* What the user may type *)

Str1(a) == <<a>>

MenuInputs ==
    {Str1("1"), Str1("2"), Str1("3"), Str1("4"), Str1("5"), Str1("6"),
     Str1("0"), Str1("x"), <<>>}

IdInputs ==
    {Str1("1"), Str1("2"), Str1("9"), <<" ", "3">>, <<"-", "1">>, Str1("x"),
     <<"1", "x">>, <<>>}

DateInputs ==
    {<<"1", "4", "/", "0", "1", "/", "2", "0", "1", "5">>,
     <<"1", "4", "/", "1", "/", "2", "0", "1", "5">>,
     <<"2", "9", "/", "0", "2", "/", "2", "0", "1", "6">>,
     <<"2", "9", "/", "0", "2", "/", "2", "0", "1", "5">>,
     <<"3", "1", "/", "0", "4", "/", "2", "0", "1", "5">>,
     <<"1", "4", "/", "1", "3", "/", "2", "0", "1", "5">>,
     <<"1", "4", "/", "0", "1", "/", "1", "5">>,
     <<"1", "4", "-", "0", "1", "-", "2", "0", "1", "5">>,
     <<"x">>}

AirlineInputs == {<<"D", "E", "L", "T", "A">>, <<"U", "A">>, <<"x">>, <<>>}

AirportInputs ==
    {SEA, JFK, <<"S", "E">>, <<"S", "E", "A", "T">>, <<"S", "3", "A">>,
     <<"L", "A", "x">>, <<>>}

-----------------------------------------------------------------------------
(* main.py: the menu loop and its handlers *)

\* Function Dispatch Dictionary
FUNCTIONS ==
    <<"flight_by_id", "flights_by_date", "delayed_flights_by_airline",
      "delayed_flights_by_airport", "quit">>

Init ==
    /\ pc = "start"
    /\ engine = "unset"
    /\ connsOut = 0
    /\ flights \in Stores
    /\ input = <<>>
    /\ rejected = FALSE
    /\ call = NoCall
    /\ storeRaised = FALSE
    /\ results = <<>>
    /\ rowSrc = <<>>
    /\ out = <<>>
    /\ msgs = 0
    /\ exc = "none"
    /\ disposals = 0
    /\ delFailed = FALSE

\* data_manager = data.FlightData(SQLITE_URI): create_engine returns an
\* engine, or raises and main is left before the menu loop
Construct ==
    /\ pc = "start"
    /\ \/ /\ engine' = "live"
          /\ pc' = "menu"
          /\ exc' = exc
       \/ /\ engine' = engine
          /\ pc' = "exiting"
          /\ exc' = "ConnectionError"
    /\ UNCHANGED <<connsOut, flights, input, rejected, call, storeRaised,
                   results, rowSrc, out, msgs, disposals, delFailed>>

\* show_menu_and_get_input, one input() of its loop, and main's call of the
\* function it returns: a handler starts at its prompt, quit raises SystemExit
ShowMenuAndGetInput ==
    /\ pc = "menu"
    /\ \E inp \in MenuInputs :
          LET choice == PyIntStr(inp)
          IN IF choice.ok /\ choice.val \in DOMAIN FUNCTIONS
             THEN IF FUNCTIONS[choice.val] = "quit"
                  THEN /\ pc' = "exiting"
                       /\ exc' = "SystemExit"
                       /\ input' = inp
                       /\ UNCHANGED <<rejected, call, storeRaised, results,
                                      rowSrc, out, msgs>>
                  ELSE /\ pc' = FUNCTIONS[choice.val]
                       /\ input' = <<>>
                       /\ rejected' = FALSE
                       /\ call' = NoCall
                       /\ storeRaised' = FALSE
                       /\ results' = <<>>
                       /\ rowSrc' = <<>>
                       /\ out' = <<>>
                       /\ msgs' = 0
                       /\ exc' = exc
             ELSE /\ input' = inp
                  /\ rejected' = TRUE
                  /\ UNCHANGED <<pc, call, storeRaised, results, rowSrc, out,
                                 msgs, exc>>
    /\ UNCHANGED <<engine, connsOut, flights, disposals, delFailed>>

\* A handler that has validated its input calls the gateway
CallGateway(inp, c) ==
    /\ input' = inp
    /\ rejected' = rejected
    /\ call' = c
    /\ pc' = "connect"

\* A handler that rejected its input prompts again
Reprompt(inp) ==
    /\ input' = inp
    /\ rejected' = TRUE
    /\ UNCHANGED <<call, pc>>

flight_by_id ==
    /\ pc = "flight_by_id"
    /\ \E inp \in IdInputs :
          LET id_input == PyIntStr(inp)
          IN IF id_input.ok
             THEN CallGateway(inp, get_flight_by_id(IntV(id_input.val)))
             ELSE Reprompt(inp)
    /\ UNCHANGED <<engine, connsOut, flights, storeRaised, results, rowSrc,
                   out, msgs, exc, disposals, delFailed>>

flights_by_date ==
    /\ pc = "flights_by_date"
    /\ \E inp \in DateInputs :
          LET date == Strptime(inp)
          IN IF date.ok
             THEN CallGateway(inp, get_flights_by_date(IntV(date.day),
                                       IntV(date.month), IntV(date.year)))
             ELSE Reprompt(inp)
    /\ UNCHANGED <<engine, connsOut, flights, storeRaised, results, rowSrc,
                   out, msgs, exc, disposals, delFailed>>

delayed_flights_by_airline ==
    /\ pc = "delayed_flights_by_airline"
    /\ \E inp \in AirlineInputs :
          CallGateway(inp, get_delayed_flights_by_airline(TextV(inp)))
    /\ UNCHANGED <<engine, connsOut, flights, storeRaised, results, rowSrc,
                   out, msgs, exc, disposals, delFailed>>

\* airport_input.isalpha() and len(airport_input) == IATA_LENGTH
\* (ValidAirportAnyLength: the faulty variant without the length check)
ValidAirportAnyLength(s) == IsAlpha(s)
ValidAirport(s) == IsAlpha(s) /\ Len(s) = IATA_LENGTH

delayed_flights_by_airport ==
    /\ pc = "delayed_flights_by_airport"
    /\ \E inp \in AirportInputs :
          IF ValidAirport(inp)
          THEN CallGateway(inp, get_delayed_flights_by_airport(TextV(inp)))
          ELSE Reprompt(inp)
    /\ UNCHANGED <<engine, connsOut, flights, storeRaised, results, rowSrc,
                   out, msgs, exc, disposals, delFailed>>

\* _execute_query: self._engine.connect() checks a connection out, or raises
Connect ==
    /\ pc = "connect"
    /\ \/ /\ connsOut' = connsOut + 1
          /\ pc' = "execute"
          /\ exc' = exc
       \/ /\ connsOut' = connsOut
          /\ pc' = "exiting"
          /\ exc' = "ConnectionError"
    /\ UNCHANGED <<engine, flights, input, rejected, call, storeRaised,
                   results, rowSrc, out, msgs, disposals, delFailed>>

\* _execute_query: the body of the with block and its exit.  The store
\* answers and the list of records is returned to the handler, or the store
\* raises; no except clause is in the way, so the exception leaves
\* _execute_query, the get_* method, the handler and main.
ExecuteQuery ==
    /\ pc = "execute"
    /\ \/ LET rows == RunTemplate(flights, call.query, call.params)
          IN /\ results' = Materialize(rows)
             /\ rowSrc' = [k \in 1..Len(rows) |-> rows[k].src]
             /\ connsOut' = ReleaseOnExit(connsOut, FALSE)
             /\ pc' = "print"
             /\ UNCHANGED <<storeRaised, exc>>
       \/ /\ storeRaised' = TRUE
          /\ connsOut' = ReleaseOnExit(connsOut, TRUE)
          /\ exc' = "SQLAlchemyError"
          /\ pc' = "exiting"
          /\ UNCHANGED <<results, rowSrc>>
    /\ UNCHANGED <<engine, flights, input, rejected, call, out, msgs,
                   disposals, delFailed>>

\* print_results(results), then back to the menu loop unless it raised
PrintResults ==
    /\ pc = "print"
    /\ LET p == print_results(results)
       IN /\ out' = p.out
          /\ msgs' = p.msgs
          /\ exc' = p.raised
          /\ pc' = IF p.raised = "none" THEN "menu" ELSE "exiting"
    /\ UNCHANGED <<engine, connsOut, flights, input, rejected, call,
                   storeRaised, results, rowSrc, disposals, delFailed>>

\* The interpreter exits and the FlightData object is destroyed: __del__
\* runs self._engine.dispose(), which raises AttributeError when __init__
\* never set _engine
Finalize ==
    /\ pc = "exiting"
    /\ pc' = "terminated"
    /\ IF engine = "unset"
       THEN /\ delFailed' = TRUE
            /\ UNCHANGED <<engine, disposals>>
       ELSE /\ engine' = "disposed"
            /\ disposals' = disposals + 1
            /\ delFailed' = delFailed
    /\ UNCHANGED <<connsOut, flights, input, rejected, call, storeRaised,
                   results, rowSrc, out, msgs, exc>>

Next ==
    \/ Construct
    \/ ShowMenuAndGetInput
    \/ flight_by_id
    \/ flights_by_date
    \/ delayed_flights_by_airline
    \/ delayed_flights_by_airport
    \/ Connect
    \/ ExecuteQuery
    \/ PrintResults
    \/ Finalize

Spec == Init /\ [][Next]_vars

-----------------------------------------------------------------------------
(* print_results on its own: applied once to a batch drawn from sample     *)
(* records, among them records that lack a column                          *)

DisplayDelays ==
    StoreDelays \cup {IntV(0 - 5), TextV(<<"-", "5">>), TextV(<<>>)}

RequiredColumns ==
    {"DELAY", "ORIGIN_AIRPORT", "DESTINATION_AIRPORT", "AIRLINE", "ID"}

\* The record get_flight_by_id returns for a flight with this delay
SampleRecord(delay) ==
    Materialize(QUERY_FLIGHT_BY_ID(<<FlightRow(1, delay)>>,
                                   [id |-> IntV(1)]))[1]

Without(r, k) == [c \in (DOMAIN r) \ {k} |-> r[c]]

SampleRecords ==
    {SampleRecord(d) : d \in DisplayDelays}
        \cup {Without(SampleRecord(IntV(45)), k) : k \in RequiredColumns}

Batches ==
    UNION {[1..n -> SampleRecords] : n \in 0..MaxBatch}

InitDisplay ==
    /\ pc = "print"
    /\ engine = "live"
    /\ connsOut = 0
    /\ flights = [i \in 1..NumFlights |-> FlightRow(i, Null)]
    /\ input = <<>>
    /\ rejected = FALSE
    /\ call = NoCall
    /\ storeRaised = FALSE
    /\ results \in Batches
    /\ rowSrc = <<>>
    /\ out = <<>>
    /\ msgs = 0
    /\ exc = "none"
    /\ disposals = 0
    /\ delFailed = FALSE

SpecDisplay == InitDisplay /\ [][PrintResults]_vars

-----------------------------------------------------------------------------
(* Properties *)

Terminal == {"exiting", "terminated"}
Querying == {"connect", "execute", "print"}
Returned == pc # "print"

\* The name the airlines relation gives an airline code
AirlineName(code) ==
    (CHOOSE a \in {Airlines[j] : j \in 1..Len(Airlines)} : a.ID = code).AIRLINE

\* Flight f is what the gateway call c asks for
Matches(f, c) ==
    CASE c.op = "get_flight_by_id" -> f.ID = c.params.id
      [] c.op = "get_flights_by_date" ->
            /\ f.DAY = c.params.day
            /\ f.MONTH = c.params.month
            /\ f.YEAR = c.params.year
      [] c.op = "get_delayed_flights_by_airport" ->
            f.ORIGIN_AIRPORT = c.params.origin_airport
      [] c.op = "get_delayed_flights_by_airline" ->
            AirlineName(f.AIRLINE) = c.params.airline
      [] OTHER -> FALSE

\* The returned rows are the matching flights, each once, in store order
ExactlyTheMatchingRows ==
    /\ Len(rowSrc) = Len(results)
    /\ \A k \in 1..Len(rowSrc) : Matches(flights[rowSrc[k]], call)
    /\ \A k \in 1..(Len(rowSrc) - 1) : rowSrc[k] < rowSrc[k + 1]
    /\ \A i \in 1..Len(flights) :
          Matches(flights[i], call) => \E k \in 1..Len(rowSrc) : rowSrc[k] = i
    /\ \A k \in 1..Len(results) :
          /\ results[k]["ORIGIN_AIRPORT"] = flights[rowSrc[k]].ORIGIN_AIRPORT
          /\ results[k]["DESTINATION_AIRPORT"]
                = flights[rowSrc[k]].DESTINATION_AIRPORT

\* C1: whenever the store raises while a query is executed or its rows are
\* fetched, _execute_query returns an empty list and no exception leaves it.
C1_StoreFailureYieldsEmptyList ==
    storeRaised => (exc = "none" /\ results = <<>> /\ pc \notin Terminal)

\* C2: the process ends only because the store could not be reached or
\* because the user chose Exit; a failed query or a malformed row ends in a
\* message and the menu, never in the end of the process.
C2_OnlyConnectivityOrExitTerminates ==
    pc \in Terminal => exc \in {"ConnectionError", "SystemExit"}

HasMinutes(v) == v.kind = "int" \/ (v.kind = "text" /\ PyIntStr(v.txt).ok)
NoDelay(v) == v.kind = "null" \/ v = TextV(<<>>)
Minutes(v) == IF v.kind = "int" THEN v.num ELSE PyIntStr(v.txt).val

WellFormed(r) ==
    /\ RequiredColumns \subseteq DOMAIN r
    /\ HasMinutes(r["DELAY"]) \/ NoDelay(r["DELAY"])

C5_MissingColumnIsReported ==
    (Returned /\ \E i \in 1..Len(results) :
                    ~(RequiredColumns \subseteq DOMAIN results[i]))
        => (exc = "none" /\ msgs = 1)

\* A date of the calendar
ValidCalendarDate(d, m, y) ==
    /\ y >= 1
    /\ m \in 1..12
    /\ d \in 1..31
    /\ m \in {4, 6, 9, 11} => d <= 30
    /\ m = 2 => d <= 29
    /\ (m = 2 /\ d = 29) => (y % 4 = 0 /\ (y % 100 # 0 \/ y % 400 = 0))

ThreeLetters(s) == Len(s) = 3 /\ \A i \in 1..Len(s) : s[i] \in Letters

\* C6: the gateway is called only with validated parameters: an airport
\* code of exactly 3 letters, an integer flight ID, the day, month and year
\* of a calendar date, each the input entered last; an input that was
\* rejected is followed by a new prompt and by no gateway call.
C6_GatewayOnlyPrevalidated ==
    /\ call.op = "get_delayed_flights_by_airport" =>
          /\ call.params.origin_airport.kind = "text"
          /\ ThreeLetters(call.params.origin_airport.txt)
          /\ pc \in Querying => call.params.origin_airport.txt = input
    /\ call.op = "get_flight_by_id" =>
          /\ call.params.id.kind = "int"
          /\ pc \in Querying =>
                /\ PyIntStr(input).ok
                /\ call.params.id.num = PyIntStr(input).val
    /\ call.op = "get_flights_by_date" =>
          /\ call.params.day.kind = "int"
          /\ call.params.month.kind = "int"
          /\ call.params.year.kind = "int"
          /\ ValidCalendarDate(call.params.day.num, call.params.month.num,
                               call.params.year.num)
          /\ pc \in Querying =>
                /\ Strptime(input).ok
                /\ call.params.day.num = Strptime(input).day
                /\ call.params.month.num = Strptime(input).month
                /\ call.params.year.num = Strptime(input).year
    /\ pc \in {"flight_by_id", "flights_by_date",
               "delayed_flights_by_airport"} =>
          /\ call.op = "none"
          /\ (rejected /\ pc = "delayed_flights_by_airport")
                => ~ThreeLetters(input)
          /\ (rejected /\ pc = "flight_by_id") => ~PyIntStr(input).ok
          /\ (rejected /\ pc = "flights_by_date") => ~Strptime(input).ok

C6_Witness ==
    /\ pc = "connect"
    /\ rejected
    /\ call.op = "get_delayed_flights_by_airport"
    /\ input = SEA

\* C7: on every way out of the program (Exit, an exception leaving the menu
\* loop, a failed construction) the engine is disposed exactly once and the
\* teardown itself does not fail.
C7_TeardownOnceOnEveryExit ==
    pc = "terminated" =>
        (disposals = 1 /\ engine = "disposed" /\ ~delFailed)

\* C8: every template projects the flight's identifier, origin, destination,
\* the airline's name and the delay, so the id print_results prints for a row
\* is that flight's id and the airline it prints is the airline's name.
C8_PrintedIdAndAirlineAreTheFlights ==
    /\ pc = "print" =>
          \A k \in 1..Len(results) :
              {"FLIGHT_ID", "ORIGIN_AIRPORT", "DESTINATION_AIRPORT",
               "AIRLINE", "DELAY"} \subseteq DOMAIN results[k]
    /\ call.op # "none" =>
          \A j \in 1..Len(out) :
              LET f == flights[rowSrc[out[j].idx]]
              IN /\ out[j].id = f.ID
                 /\ out[j].airline = AirlineName(f.AIRLINE)

\* The DELAY of the record cannot be converted to an integer
BadDelay(r) ==
    "DELAY" \in DOMAIN r /\ Truthy(r["DELAY"]) /\ ~PyInt(r["DELAY"]).ok

\* C9: when the first row whose DELAY cannot be converted is row k of the
\* batch, exactly the rows before k are printed, in order, one error is
\* reported and print_results returns.
C9_FailFastAtFirstBadDelay ==
    (Returned /\ \E i \in 1..Len(results) : BadDelay(results[i])) =>
        LET k == CHOOSE i \in 1..Len(results) :
                     /\ BadDelay(results[i])
                     /\ \A j \in 1..(i - 1) : ~BadDelay(results[j])
        IN /\ exc = "none"
           /\ msgs = 1
           /\ Len(out) = k - 1
           /\ \A j \in 1..Len(out) : out[j].idx = j

====
